---- MODULE Spec2Model ----
(***************************************************************************)
(* form2json: a Caddy HTTP middleware that rewrites the body of form POST  *)
(* requests as a JSON document (handler.go).                               *)
(*                                                                         *)
(* Strings that are inspected byte by byte (part names and values, the     *)
(* JSON body, the Content-Length digits) are sequences of one-character    *)
(* strings.  Content-Type header values are sequences of tokens so that    *)
(* strings.HasPrefix is a prefix test on sequences.                        *)
(***************************************************************************)
EXTENDS Integers, Sequences, FiniteSets, TLC

\* ------------------------------------------------------------------ bounds

\* number of request slots the host serves (at most this many in flight)
NumReqs == 2
\* maximum number of parts (fields and files) in one submitted form
MaxParts == 2

Reqs == 1..NumReqs
\* sync.Pool hands out *bytes.Buffer values; one identity per request slot
\* is enough for New to always find an unused one
Bufs == 1..NumReqs

\* ------------------------------------------------------- program constants

defaultMemLimit == 1024 * 1024 * 2

StatusBadRequest == 400
StatusInternalServerError == 500

MethodPost == "POST"

FieldText == <<"f","i","e","l","d","/","t","e","x","t">>
FileBase64 == <<"f","i","l","e","/","b","a","s","e","6","4">>

ApplicationJSON == <<"application/json">>
ContentTypeClass == <<"caddy_post_json_v1">>

PrefixUrlencoded == <<"application/x-www-form-urlencoded">>
PrefixMultipart == <<"multipart/form-data">>

\* ---------------------------------------------------------- pure functions

\* strings.HasPrefix(s, prefix)
HasPrefix(s, prefix) ==
    /\ Len(s) >= Len(prefix)
    /\ SubSeq(s, 1, Len(prefix)) = prefix

\* strconv.Itoa for n >= 0, as decimal digit characters
Digit(d) == <<"0","1","2","3","4","5","6","7","8","9">>[d + 1]

RECURSIVE Itoa(_)
Itoa(n) == IF n < 10 THEN <<Digit(n)>> ELSE Itoa(n \div 10) \o <<Digit(n % 10)>>

\* base64.StdEncoding alphabet
B64Alphabet ==
    <<"A","B","C","D","E","F","G","H","I","J","K","L","M","N","O","P",
      "Q","R","S","T","U","V","W","X","Y","Z","a","b","c","d","e","f",
      "g","h","i","j","k","l","m","n","o","p","q","r","s","t","u","v",
      "w","x","y","z","0","1","2","3","4","5","6","7","8","9","+","/">>

B64Char(i) == B64Alphabet[i + 1]

\* the encoder never closed: the bytes after the last full group of three
\* are not written
RECURSIVE Base64EncodeUnflushed(_)
Base64EncodeUnflushed(bs) ==
    IF Len(bs) < 3 THEN <<>>
    ELSE <<B64Char(bs[1] \div 4),
           B64Char((bs[1] % 4) * 16 + bs[2] \div 16),
           B64Char((bs[2] % 16) * 4 + bs[3] \div 64),
           B64Char(bs[3] % 64)>> \o Base64EncodeUnflushed(SubSeq(bs, 4, Len(bs)))

\* base64.NewEncoder(base64.StdEncoding, buf) fed the whole byte sequence and
\* then closed: 3 bytes -> 4 characters, the tail padded with "="
RECURSIVE Base64Encode(_)
Base64Encode(bs) ==
    IF Len(bs) = 0 THEN <<>>
    ELSE IF Len(bs) = 1 THEN
        <<B64Char(bs[1] \div 4), B64Char((bs[1] % 4) * 16), "=", "=">>
    ELSE IF Len(bs) = 2 THEN
        <<B64Char(bs[1] \div 4),
          B64Char((bs[1] % 4) * 16 + bs[2] \div 16),
          B64Char((bs[2] % 16) * 4), "=">>
    ELSE
        <<B64Char(bs[1] \div 4),
          B64Char((bs[1] % 4) * 16 + bs[2] \div 16),
          B64Char((bs[2] % 16) * 4 + bs[3] \div 64),
          B64Char(bs[3] % 64)>> \o Base64Encode(SubSeq(bs, 4, Len(bs)))

\* type part struct
Part(name, type, value, contentType, fileName) ==
    [Name |-> name, Type |-> type, Value |-> value,
     ContentType |-> contentType, FileName |-> fileName]

\* encoding/json string escaping of the characters the inputs use
JsonEscapeChar(c) ==
    IF c = "\"" THEN <<"\\", "\"">>
    ELSE IF c = "\\" THEN <<"\\", "\\">>
    ELSE <<c>>

RECURSIVE JsonEscape(_)
JsonEscape(s) ==
    IF Len(s) = 0 THEN <<>> ELSE JsonEscapeChar(s[1]) \o JsonEscape(Tail(s))

JsonString(s) == <<"\"">> \o JsonEscape(s) \o <<"\"">>

\* the json:"...,omitempty" tags of part, in field order
JsonKeys ==
    << <<"Name", <<"n","a","m","e">> >>,
       <<"Type", <<"t","y","p","e">> >>,
       <<"Value", <<"v","a","l","u","e">> >>,
       <<"ContentType", <<"c","o","n","t","e","n","t","_","t","y","p","e">> >>,
       <<"FileName", <<"f","i","l","e","_","n","a","m","e">> >> >>

\* the members of one part object: empty fields are omitted
RECURSIVE JsonMembers(_, _, _)
JsonMembers(p, i, first) ==
    IF i > Len(JsonKeys) THEN <<>>
    ELSE LET k == JsonKeys[i]
             v == p[k[1]]
         IN IF Len(v) = 0 THEN JsonMembers(p, i + 1, first)
            ELSE (IF first THEN <<>> ELSE <<",">>)
                 \o JsonString(k[2]) \o <<":">> \o JsonString(v)
                 \o JsonMembers(p, i + 1, FALSE)

JsonObject(p) == <<"{">> \o JsonMembers(p, 1, TRUE) \o <<"}">>

RECURSIVE JsonElements(_)
JsonElements(ps) ==
    IF Len(ps) = 0 THEN <<>>
    ELSE JsonObject(ps[1])
         \o (IF Len(ps) > 1 THEN <<",">> ELSE <<>>)
         \o JsonElements(Tail(ps))

\* json.NewEncoder(buf).Encode(converted): a nil slice (no append happened)
\* is written as null, anything else as an array; Encode ends with a newline
JsonEncode(converted) ==
    (IF Len(converted) = 0 THEN <<"n","u","l","l">>
     ELSE <<"[">> \o JsonElements(converted) \o <<"]">>) \o <<"\n">>

\* ------------------------------------------------------------------ inputs

Min(a, b) == IF a < b THEN a ELSE b
Max(a, b) == IF a > b THEN a ELSE b

\* one submitted form part: a text field, or an uploaded file with the
\* client's file name, its declared content type and its bytes (0..255)
TextItem(name, value) ==
    [kind |-> "field", name |-> name, value |-> value,
     filename |-> <<>>, ctype |-> <<>>, bytes |-> <<>>]
FileItem(name, filename, ctype, bytes) ==
    [kind |-> "file", name |-> name, value |-> <<>>,
     filename |-> filename, ctype |-> ctype, bytes |-> bytes]

Items ==
    { TextItem(<<"a">>, <<"1">>),
      TextItem(<<"a">>, <<"2">>),
      TextItem(<<"b">>, <<"\"">>),
      FileItem(<<"f">>, <<"x">>, <<"i","/","p">>, <<77>>),
      FileItem(<<"f">>, <<"y">>, <<>>, <<80, 78>>),
      FileItem(<<"g">>, <<"z">>, <<"i","/","p">>, <<255, 0, 16>>) }

SeqsUpTo(S, n) == UNION { [1..k -> S] : k \in 0..n }

\* a request body: the parts in submission order; ok = FALSE is a body the
\* multipart reader cannot decode (corrupted boundary, truncated)
Bodies ==
    { [items |-> s, ok |-> TRUE] : s \in SeqsUpTo(Items, MaxParts) }
    \cup { [items |-> <<>>, ok |-> FALSE] }

Methods == {"GET", MethodPost}

ParamBoundary == "; boundary=b"

\* Content-Type header values as token sequences; <<>> is an absent header
ContentTypes ==
    { <<>>,
      ApplicationJSON,
      PrefixUrlencoded,
      PrefixMultipart \o <<ParamBoundary>>,
      PrefixMultipart,
      PrefixMultipart \o <<"x", ParamBoundary>> }

Multipart == PrefixMultipart \o <<ParamBoundary>>

\* bodies sent with the other methods and content types
PlainBodies ==
    { [items |-> <<>>, ok |-> TRUE],
      [items |-> << TextItem(<<"a">>, <<"1">>), TextItem(<<"a">>, <<"2">>) >>,
       ok |-> TRUE],
      [items |-> <<>>, ok |-> FALSE] }

\* the requests of the sequential specification: every form as a multipart
\* POST, and every method and content type with a few bodies
Inputs ==
    [method : {MethodPost}, ct : {Multipart}, body : Bodies]
    \cup [method : Methods, ct : ContentTypes, body : PlainBodies]

\* the requests of the concurrent specification: one of each kind of path
ConcInputs ==
    { [method |-> "GET", ct |-> ApplicationJSON,
       body |-> [items |-> <<>>, ok |-> TRUE]],
      [method |-> MethodPost, ct |-> Multipart,
       body |-> [items |-> <<>>, ok |-> FALSE]],
      [method |-> MethodPost, ct |-> Multipart,
       body |-> [items |-> << FileItem(<<"f">>, <<"x">>, <<"i","/","p">>, <<77>>) >>,
                 ok |-> TRUE]] }

\* configured values of Handler.MemoryLimit (memory_limit; 0 when omitted)
MemLimits == {-1, 0, 2, defaultMemLimit}

\* transport length of a body as received
RECURSIVE BodySize(_)
BodySize(items) ==
    IF Len(items) = 0 THEN 1
    ELSE Len(Head(items).name) + Len(Head(items).value)
         + Len(Head(items).bytes) + BodySize(Tail(items))

\* -------------------------------------------------------- the form parser

\* mime.ParseMediaType: the media type is what precedes the parameters
MediaType(ct) ==
    IF Len(ct) = 0 THEN <<>>
    ELSE IF Len(ct) = 1 \/ ct[2] = ParamBoundary THEN <<ct[1]>>
    ELSE <<ct[1], ct[2]>>

HasBoundary(ct) == \E i \in 1..Len(ct) : ct[i] = ParamBoundary

\* the error of http.Request.ParseMultipartForm: "nil" or the cause
ParseError(ct, body) ==
    IF MediaType(ct) # PrefixMultipart THEN "ErrNotMultipart"
    ELSE IF ~HasBoundary(ct) THEN "ErrMissingBoundary"
    ELSE IF ~body.ok THEN "ErrUnexpectedEOF"
    ELSE "nil"

NilForm == [set |-> FALSE, Value |-> <<>>, File |-> <<>>]

\* map[k] = append(map[k], v)
MapAppend(m, k, v) ==
    [n \in (DOMAIN m) \cup {k} |->
        IF n = k THEN (IF k \in DOMAIN m THEN m[k] ELSE <<>>) \o <<v>>
        ELSE m[n]]

\* multipart.FileHeader; tmpfile is 0 for content held in memory, else the
\* identity of the temporary file on disk
FileHeader(it, tmpfile) ==
    [Filename |-> it.filename, ContentType |-> it.ctype,
     content |-> it.bytes, tmpfile |-> tmpfile]

\* multipart.Reader.ReadForm(maxMemory): a file whose content does not fit
\* in what is left of maxMemory goes to a temporary file
RECURSIVE ReadForm(_, _, _, _)
ReadForm(items, i, maxMemory, form) ==
    IF i > Len(items) THEN form
    ELSE LET it == items[i] IN
         IF it.kind = "field"
         THEN ReadForm(items, i + 1, maxMemory,
                       [form EXCEPT !.Value = MapAppend(@, it.name, it.value)])
         ELSE LET n == Min(Len(it.bytes), Max(0, maxMemory + 1))
                  spill == n > maxMemory
              IN ReadForm(items, i + 1,
                          IF spill THEN maxMemory ELSE maxMemory - n,
                          [form EXCEPT !.File =
                              MapAppend(@, it.name,
                                        FileHeader(it, IF spill THEN i ELSE 0))])

ParseMultipartForm(body, maxMemory) ==
    ReadForm(body.items, 1, maxMemory, [NilForm EXCEPT !.set = TRUE])

\* the temporary files a parsed form owns
TempFilesOf(form) ==
    { form.File[n][i].tmpfile : <<n, i>> \in
        { <<n, i>> \in (DOMAIN form.File) \X (1..MaxParts) :
            i <= Len(form.File[n]) /\ form.File[n][i].tmpfile # 0 } }

\* the orders in which a range over a map with key set S may visit its keys
Perms(S) ==
    { p \in [1..Cardinality(S) -> S] : \A k \in S : \E i \in DOMAIN p : p[i] = k }

\* one part per name, from its first value, as a keyed lookup would give
RECURSIVE TextPartsFirstValue(_, _)
TextPartsFirstValue(values, order) ==
    IF Len(order) = 0 THEN <<>>
    ELSE << Part(Head(order), FieldText, values[Head(order)][1], <<>>, <<>>) >>
         \o TextPartsFirstValue(values, Tail(order))

\* the values of a name taken last first
RECURSIVE TextPartsNewestFirst(_, _)
TextPartsNewestFirst(values, order) ==
    IF Len(order) = 0 THEN <<>>
    ELSE [i \in 1..Len(values[Head(order)]) |->
             Part(Head(order), FieldText,
                  values[Head(order)][Len(values[Head(order)]) + 1 - i], <<>>, <<>>)]
         \o TextPartsNewestFirst(values, Tail(order))

\* lines 81-89: one field/text part per value, names in iteration order
RECURSIVE TextParts(_, _)
TextParts(values, order) ==
    IF Len(order) = 0 THEN <<>>
    ELSE [i \in 1..Len(values[Head(order)]) |->
             Part(Head(order), FieldText, values[Head(order)][i], <<>>, <<>>)]
         \o TextParts(values, Tail(order))

\* lines 90-91: the (name, file) pairs in the order the loops visit them
RECURSIVE FileWork(_, _)
FileWork(files, order) ==
    IF Len(order) = 0 THEN <<>>
    ELSE [i \in 1..Len(files[Head(order)]) |->
             [name |-> Head(order), file |-> files[Head(order)][i]]]
         \o FileWork(files, Tail(order))

\* an encoder that sees only what the parser kept in memory: a file that was
\* written to a temporary file encodes as an empty file
encodeFileHeldInMemory(name, file) ==
    Part(name, FileBase64,
         Base64Encode(IF file.tmpfile = 0 THEN file.content ELSE <<>>),
         file.ContentType, file.Filename)

\* encodeFileIntoMemory on its success path
encodeFileIntoMemory(name, file) ==
    Part(name, FileBase64, Base64Encode(file.content),
         file.ContentType, file.Filename)

\* ------------------------------------------------------------------- state

VARIABLES
    configured,   \* the memory_limit the configuration gave the handler
    handler,      \* the Handler value the host holds: [MemoryLimit]
    provisioned,  \* Provision has been called on it
    pool,         \* bufPool: the buffers available to Get
    bufData,      \* contents of every bytes.Buffer
    pc,           \* per request: where its ServeHTTP call stands
    req,          \* per request: the *http.Request
    entry,        \* per request: the request as it was when ServeHTTP was entered
    stream,       \* per request: the original body stream
    loc,          \* per request: the locals of ServeHTTP
    tmp,          \* per request: the parser's temporary files on disk
    nextCalls,    \* per request: what each invocation of next was given
    result,       \* per request: what ServeHTTP returned
    trace         \* per request: the steps taken, in order

vars == <<configured, handler, provisioned, pool, bufData, pc, req, entry, stream, loc,
          tmp, nextCalls, result, trace>>

StreamBody == [kind |-> "stream", id |-> 0]
BufBody(b) == [kind |-> "buf", id |-> b]

NoRequest ==
    [Method |-> "", Header |-> [CT |-> <<>>, CTC |-> <<>>, CL |-> <<>>],
     Body |-> StreamBody, ContentLength |-> 0, MultipartForm |-> NilForm]

NoStream == [body |-> [items |-> <<>>, ok |-> TRUE], read |-> FALSE, closed |-> 0]

NoLocals ==
    [limit |-> 0, converted |-> <<>>, todo |-> <<>>, buf |-> 0,
     deferred |-> FALSE, ret |-> [kind |-> "none"]]

NoResult == [kind |-> "none"]

\* caddyhttp.Error(status, err)
HandlerError(status, cause) == [kind |-> "error", status |-> status, cause |-> cause]
\* a handler that reports success whatever next returned
NextResultSwallowed(v) == [kind |-> "next", value |-> "nil"]

\* the value next.ServeHTTP returned
NextResult(v) == [kind |-> "next", value |-> v]

\* the request a client sends
NewRequest(in) ==
    [Method |-> in.method,
     Header |-> [CT |-> in.ct, CTC |-> <<>>, CL |-> Itoa(BodySize(in.body.items))],
     Body |-> StreamBody,
     ContentLength |-> BodySize(in.body.items),
     MultipartForm |-> NilForm]

Init ==
    /\ configured \in MemLimits
    /\ handler = [MemoryLimit |-> configured]
    /\ provisioned = FALSE
    /\ pool = {}
    /\ bufData = [b \in Bufs |-> <<>>]
    /\ pc = [r \in Reqs |-> "idle"]
    /\ req = [r \in Reqs |-> NoRequest]
    /\ entry = [r \in Reqs |-> NoRequest]
    /\ stream = [r \in Reqs |-> NoStream]
    /\ loc = [r \in Reqs |-> NoLocals]
    /\ tmp = [r \in Reqs |-> {}]
    /\ nextCalls = [r \in Reqs |-> <<>>]
    /\ result = [r \in Reqs |-> NoResult]
    /\ trace = [r \in Reqs |-> <<>>]

\* ------------------------------------------------------------------ actions

\* Provision has a value receiver: the assignment of line 56 changes the
\* copy h, which ProvisionedCopy describes, and the caller's Handler is what
\* it was
ProvisionedCopy(h) ==
    IF h.MemoryLimit <= 0 THEN [h EXCEPT !.MemoryLimit = defaultMemLimit] ELSE h

AfterProvision(h) ==
    LET copy == ProvisionedCopy(h) IN h

Provision ==
    /\ ~provisioned
    /\ provisioned' = TRUE
    /\ handler' = AfterProvision(handler)
    /\ UNCHANGED <<configured, pool, bufData, pc, req, entry, stream, loc, tmp,
                   nextCalls, result, trace>>

\* the host calls ServeHTTP(w, r, next) with a request
Arrive(r, in) ==
    /\ provisioned
    /\ pc[r] = "idle"
    /\ pc' = [pc EXCEPT ![r] = "gate"]
    /\ req' = [req EXCEPT ![r] = NewRequest(in)]
    /\ entry' = [entry EXCEPT ![r] = NewRequest(in)]
    /\ stream' = [stream EXCEPT ![r] = [body |-> in.body, read |-> FALSE, closed |-> 0]]
    /\ UNCHANGED <<configured, handler, provisioned, pool, bufData, loc, tmp, nextCalls,
                   result, trace>>

\* the gate without its method test
EligibleAnyMethod(rq) ==
    \/ HasPrefix(rq.Header.CT, PrefixUrlencoded)
    \/ HasPrefix(rq.Header.CT, PrefixMultipart)

\* lines 63-70: the request is one this handler converts
Eligible(rq) ==
    /\ rq.Method = MethodPost
    /\ \/ HasPrefix(rq.Header.CT, PrefixUrlencoded)
       \/ HasPrefix(rq.Header.CT, PrefixMultipart)

Gate(r) ==
    /\ pc[r] = "gate"
    /\ pc' = [pc EXCEPT ![r] = IF Eligible(req[r]) THEN "parse" ELSE "next"]
    /\ UNCHANGED <<configured, handler, provisioned, pool, bufData, req, entry, stream, loc,
                   tmp, nextCalls, result, trace>>

\* line 73: the memory limit handed to the parser
ParseLimit(h) == h.MemoryLimit

\* a parse failure reported as an internal error
ParseFailureInternal(err) == HandlerError(StatusInternalServerError, err)

\* line 75: return caddyhttp.Error(http.StatusBadRequest, err)
ParseFailure(err) == HandlerError(StatusBadRequest, err)

\* lines 73-76, the parser returned an error
ParseFail(r) ==
    /\ pc[r] = "parse"
    /\ ParseError(req[r].Header.CT, stream[r].body) # "nil"
    /\ loc' = [loc EXCEPT ![r].limit = ParseLimit(handler)]
    /\ stream' = [stream EXCEPT ![r].read = (MediaType(req[r].Header.CT) = PrefixUrlencoded
                                             \/ HasBoundary(req[r].Header.CT))]
    /\ result' = [result EXCEPT ![r] =
                    ParseFailure(ParseError(req[r].Header.CT, stream[r].body))]
    /\ trace' = [trace EXCEPT ![r] = @ \o <<"parse", "failed">>]
    /\ pc' = [pc EXCEPT ![r] = "returned"]
    /\ UNCHANGED <<configured, handler, provisioned, pool, bufData, req, entry, tmp,
                   nextCalls>>

\* line 73, the parser succeeded: r.MultipartForm is set, the body is read
\* to its end and the oversized files are in temporary files
ParseOk(r) ==
    /\ pc[r] = "parse"
    /\ ParseError(req[r].Header.CT, stream[r].body) = "nil"
    /\ LET form == ParseMultipartForm(stream[r].body, ParseLimit(handler)) IN
        /\ req' = [req EXCEPT ![r].MultipartForm = form]
        /\ tmp' = [tmp EXCEPT ![r] = TempFilesOf(form)]
    /\ loc' = [loc EXCEPT ![r].limit = ParseLimit(handler)]
    /\ stream' = [stream EXCEPT ![r].read = TRUE]
    /\ trace' = [trace EXCEPT ![r] = Append(@, "parse")]
    /\ pc' = [pc EXCEPT ![r] = "close"]
    /\ UNCHANGED <<configured, handler, provisioned, pool, bufData, entry, nextCalls,
                   result>>

\* a handler that leaves the body open
CloseBodySkipped(r) ==
    /\ pc[r] = "close"
    /\ trace' = [trace EXCEPT ![r] = Append(@, "close")]
    /\ pc' = [pc EXCEPT ![r] = "values"]
    /\ UNCHANGED <<configured, handler, provisioned, pool, bufData, req, entry, stream,
                   loc, tmp, nextCalls, result>>

\* line 77: r.Body.Close()
CloseBody(r) ==
    /\ pc[r] = "close"
    /\ stream' = [stream EXCEPT ![r].closed = @ + 1]
    /\ trace' = [trace EXCEPT ![r] = Append(@, "close")]
    /\ pc' = [pc EXCEPT ![r] = "values"]
    /\ UNCHANGED <<configured, handler, provisioned, pool, bufData, req, entry, loc, tmp,
                   nextCalls, result>>

\* lines 80-89, and the order in which lines 90-91 will visit the files;
\* a range over a map visits its keys in any order
BuildTextParts(r) ==
    /\ pc[r] = "values"
    /\ \E order \in Perms(DOMAIN req[r].MultipartForm.Value),
          forder \in Perms(DOMAIN req[r].MultipartForm.File) :
        loc' = [loc EXCEPT ![r].converted = TextParts(req[r].MultipartForm.Value, order),
                           ![r].todo = FileWork(req[r].MultipartForm.File, forder)]
    /\ trace' = [trace EXCEPT ![r] = Append(@, "build")]
    /\ pc' = [pc EXCEPT ![r] = "files"]
    /\ UNCHANGED <<configured, handler, provisioned, pool, bufData, req, entry, stream, tmp,
                   nextCalls, result>>

\* an internal failure reported as the client's fault
InternalFailureAsBadRequest(cause) == HandlerError(StatusBadRequest, cause)

\* lines 94, 102, 113: return caddyhttp.Error(http.StatusInternalServerError, err)
InternalFailure(cause) == HandlerError(StatusInternalServerError, cause)

\* lines 92-96: the next file is encoded and appended
EncodeFileOk(r) ==
    /\ pc[r] = "files"
    /\ loc[r].todo # <<>>
    /\ loc' = [loc EXCEPT
                 ![r].converted =
                     Append(@, encodeFileIntoMemory(Head(loc[r].todo).name,
                                                    Head(loc[r].todo).file)),
                 ![r].todo = Tail(@)]
    /\ trace' = [trace EXCEPT ![r] = Append(@, "file")]
    /\ UNCHANGED <<configured, handler, provisioned, pool, bufData, pc, req, entry, stream,
                   tmp, nextCalls, result>>

\* a file loop that notes the failure of a file and goes on with the next
EncodeFileFailSkips(r) ==
    /\ pc[r] = "files"
    /\ loc[r].todo # <<>>
    /\ Head(loc[r].todo).file.tmpfile # 0
    /\ loc' = [loc EXCEPT ![r].todo = Tail(@)]
    /\ trace' = [trace EXCEPT ![r] = @ \o <<"file", "failed">>]
    /\ UNCHANGED <<configured, handler, provisioned, pool, bufData, pc, req, entry, stream,
                   tmp, nextCalls, result>>

\* lines 92-95: file.Open or io.Copy failed, which only a file kept in a
\* temporary file can do
EncodeFileFail(r) ==
    /\ pc[r] = "files"
    /\ loc[r].todo # <<>>
    /\ Head(loc[r].todo).file.tmpfile # 0
    /\ \E cause \in {"open", "copy"} :
        result' = [result EXCEPT ![r] = InternalFailure(cause)]
    /\ trace' = [trace EXCEPT ![r] = @ \o <<"file", "failed">>]
    /\ pc' = [pc EXCEPT ![r] = "returned"]
    /\ UNCHANGED <<configured, handler, provisioned, pool, bufData, req, entry, stream, loc,
                   tmp, nextCalls>>

\* line 101: r.MultipartForm.RemoveAll() removed every temporary file
RemoveAllOk(r) ==
    /\ pc[r] = "files"
    /\ loc[r].todo = <<>>
    /\ tmp' = [tmp EXCEPT ![r] = {}]
    /\ trace' = [trace EXCEPT ![r] = Append(@, "remove")]
    /\ pc' = [pc EXCEPT ![r] = "getbuf"]
    /\ UNCHANGED <<configured, handler, provisioned, pool, bufData, req, entry, stream, loc,
                   nextCalls, result>>

\* a handler that has set the new Content-Type before it removes the
\* temporary files
RemoveAllFailAfterHeaders(r) ==
    /\ pc[r] = "files"
    /\ loc[r].todo = <<>>
    /\ tmp[r] # {}
    /\ \E left \in (SUBSET tmp[r]) \ {{}} : tmp' = [tmp EXCEPT ![r] = left]
    /\ req' = [req EXCEPT ![r].Header.CT = ApplicationJSON]
    /\ result' = [result EXCEPT ![r] = InternalFailure("remove")]
    /\ trace' = [trace EXCEPT ![r] = @ \o <<"remove", "failed">>]
    /\ pc' = [pc EXCEPT ![r] = "returned"]
    /\ UNCHANGED <<configured, handler, provisioned, pool, bufData, entry, stream, loc,
                   nextCalls>>

\* lines 101-103: removing some temporary file failed
RemoveAllFail(r) ==
    /\ pc[r] = "files"
    /\ loc[r].todo = <<>>
    /\ tmp[r] # {}
    /\ \E left \in (SUBSET tmp[r]) \ {{}} : tmp' = [tmp EXCEPT ![r] = left]
    /\ result' = [result EXCEPT ![r] = InternalFailure("remove")]
    /\ trace' = [trace EXCEPT ![r] = @ \o <<"remove", "failed">>]
    /\ pc' = [pc EXCEPT ![r] = "returned"]
    /\ UNCHANGED <<configured, handler, provisioned, pool, bufData, req, entry, stream, loc,
                   nextCalls>>

\* the buffers some request holds or some request body reads from
InUse ==
    { loc[q].buf : q \in { q \in Reqs : loc[q].buf # 0 } }
    \cup { req[q].Body.id : q \in { q \in Reqs : req[q].Body.kind = "buf" } }

\* one global buffer in place of the pool
GettableGlobal == {1}

\* what bufPool.Get() may return: a buffer of the pool, or one New makes
\* (the smallest unused identity stands for a new allocation)
Gettable ==
    pool \cup (LET free == Bufs \ (pool \cup InUse)
               IN IF free = {} THEN {} ELSE {CHOOSE b \in free : \A c \in free : b <= c})

\* line 106: buf := bufPool.Get().(*bytes.Buffer)
GetBuf(r) ==
    /\ pc[r] = "getbuf"
    /\ \E b \in Gettable :
        /\ loc' = [loc EXCEPT ![r].buf = b]
        /\ pool' = pool \ {b}
        /\ bufData' = IF b \in pool THEN bufData ELSE [bufData EXCEPT ![b] = <<>>]
    /\ trace' = [trace EXCEPT ![r] = Append(@, "get")]
    /\ pc' = [pc EXCEPT ![r] = "reset"]
    /\ UNCHANGED <<configured, handler, provisioned, req, entry, stream, tmp, nextCalls,
                   result>>

\* a Reset that keeps what the buffer held
ResetKeeps(data) == data

\* bytes.Buffer.Reset
Reset(data) == <<>>

\* lines 107-108: buf.Reset(); defer bufPool.Put(buf)
ResetBuf(r) ==
    /\ pc[r] = "reset"
    /\ bufData' = [bufData EXCEPT ![loc[r].buf] = Reset(@)]
    /\ loc' = [loc EXCEPT ![r].deferred = TRUE]
    /\ trace' = [trace EXCEPT ![r] = Append(@, "reset")]
    /\ pc' = [pc EXCEPT ![r] = "encode"]
    /\ UNCHANGED <<configured, handler, provisioned, pool, req, entry, stream, tmp,
                   nextCalls, result>>

\* line 111: the encoder appends the document to the buffer
EncodeJSONOk(r) ==
    /\ pc[r] = "encode"
    /\ bufData' = [bufData EXCEPT ![loc[r].buf] = @ \o JsonEncode(loc[r].converted)]
    /\ trace' = [trace EXCEPT ![r] = Append(@, "encode")]
    /\ pc' = [pc EXCEPT ![r] = "splice"]
    /\ UNCHANGED <<configured, handler, provisioned, pool, req, entry, stream, loc, tmp,
                   nextCalls, result>>

\* lines 111-114: Encode returned an error; nothing was written
EncodeJSONFail(r) ==
    /\ pc[r] = "encode"
    /\ loc' = [loc EXCEPT ![r].ret = InternalFailure("json")]
    /\ trace' = [trace EXCEPT ![r] = @ \o <<"encode", "failed">>]
    /\ pc' = [pc EXCEPT ![r] = "defer"]
    /\ UNCHANGED <<configured, handler, provisioned, pool, bufData, req, entry, stream, tmp,
                   nextCalls, result>>

\* the splice without line 123: ContentLength keeps the length of the form
SplicedStaleLength(rq, b, data) ==
    [rq EXCEPT !.Body = BufBody(b),
               !.Header = [CT |-> ApplicationJSON,
                           CTC |-> ContentTypeClass,
                           CL |-> Itoa(Len(data))]]

\* lines 117-123: the request with its body and headers replaced
Spliced(rq, b, data) ==
    [rq EXCEPT !.Body = BufBody(b),
               !.Header = [CT |-> ApplicationJSON,
                           CTC |-> ContentTypeClass,
                           CL |-> Itoa(Len(data))],
               !.ContentLength = Len(data)]

Splice(r) ==
    /\ pc[r] = "splice"
    /\ req' = [req EXCEPT ![r] = Spliced(@, loc[r].buf, bufData[loc[r].buf])]
    /\ trace' = [trace EXCEPT ![r] = Append(@, "splice")]
    /\ pc' = [pc EXCEPT ![r] = "next"]
    /\ UNCHANGED <<configured, handler, provisioned, pool, bufData, entry, stream, loc, tmp,
                   nextCalls, result>>

\* what a reader of rq.Body gets
Readable(rq) ==
    IF rq.Body.kind = "buf" THEN [kind |-> "buf", data |-> bufData[rq.Body.id]]
    ELSE [kind |-> "stream", data |-> <<>>]

\* lines 64, 69, 125: next.ServeHTTP(w, r)
CallNext(r) ==
    /\ pc[r] = "next"
    /\ nextCalls' = [nextCalls EXCEPT ![r] =
                        Append(@, [req |-> req[r], readable |-> Readable(req[r]),
                                   closed |-> stream[r].closed])]
    /\ trace' = [trace EXCEPT ![r] = Append(@, "next")]
    /\ pc' = [pc EXCEPT ![r] = "innext"]
    /\ UNCHANGED <<configured, handler, provisioned, pool, bufData, req, entry, stream, loc,
                   tmp, result>>

\* the next handler returns nil or an error; ServeHTTP returns that value
\* after its deferred call, if it registered one
NextReturn(r) ==
    /\ pc[r] = "innext"
    /\ \E v \in {"nil", "error"} :
        /\ trace' = [trace EXCEPT ![r] = Append(@, v)]
        /\ IF loc[r].deferred
           THEN /\ loc' = [loc EXCEPT ![r].ret = NextResult(v)]
                /\ pc' = [pc EXCEPT ![r] = "defer"]
                /\ UNCHANGED result
           ELSE /\ result' = [result EXCEPT ![r] = NextResult(v)]
                /\ pc' = [pc EXCEPT ![r] = "returned"]
                /\ UNCHANGED loc
    /\ UNCHANGED <<configured, handler, provisioned, pool, bufData, req, entry,
                   stream, tmp, nextCalls>>

\* line 108 taking effect as ServeHTTP returns: bufPool.Put(buf)
RunDeferred(r) ==
    /\ pc[r] = "defer"
    /\ pool' = pool \cup {loc[r].buf}
    /\ loc' = [loc EXCEPT ![r].buf = 0]
    /\ result' = [result EXCEPT ![r] = loc[r].ret]
    /\ trace' = [trace EXCEPT ![r] = Append(@, "put")]
    /\ pc' = [pc EXCEPT ![r] = "returned"]
    /\ UNCHANGED <<configured, handler, provisioned, bufData, req, entry, stream, tmp,
                   nextCalls>>

\* the bytes a pooled buffer keeps once no request reads from it any more:
\* whatever document was written last, recorded as one leftover byte
Leftover == <<"#">>

\* the buffer contents once request r is gone
Abandoned(r) ==
    [b \in Bufs |->
        IF /\ req[r].Body = BufBody(b)
           /\ b \in pool
           /\ \A q \in Reqs \ {r} : req[q].Body # BufBody(b)
        THEN Leftover ELSE bufData[b]]

\* the host is done with the request
Retire(r) ==
    /\ pc[r] = "returned"
    /\ bufData' = Abandoned(r)
    /\ pc' = [pc EXCEPT ![r] = "idle"]
    /\ req' = [req EXCEPT ![r] = NoRequest]
    /\ entry' = [entry EXCEPT ![r] = NoRequest]
    /\ stream' = [stream EXCEPT ![r] = NoStream]
    /\ loc' = [loc EXCEPT ![r] = NoLocals]
    /\ tmp' = [tmp EXCEPT ![r] = {}]
    /\ nextCalls' = [nextCalls EXCEPT ![r] = <<>>]
    /\ result' = [result EXCEPT ![r] = NoResult]
    /\ trace' = [trace EXCEPT ![r] = <<>>]
    /\ UNCHANGED <<configured, handler, provisioned, pool>>

\* ----------------------------------------------------------- specifications

AllIdle == \A q \in Reqs : pc[q] = "idle"

\* the host serves one request at a time
ArriveAlone(r) == AllIdle /\ \E in \in Inputs : Arrive(r, in)

\* the host serves requests concurrently
ArriveAny(r) == \E in \in ConcInputs : Arrive(r, in)

Step(r) ==
    \/ Gate(r)
    \/ ParseFail(r)
    \/ ParseOk(r)
    \/ CloseBody(r)
    \/ BuildTextParts(r)
    \/ EncodeFileOk(r)
    \/ EncodeFileFail(r)
    \/ RemoveAllOk(r)
    \/ RemoveAllFail(r)
    \/ GetBuf(r)
    \/ ResetBuf(r)
    \/ EncodeJSONOk(r)
    \/ EncodeJSONFail(r)
    \/ Splice(r)
    \/ CallNext(r)
    \/ NextReturn(r)
    \/ RunDeferred(r)
    \/ Retire(r)

Next == Provision \/ \E r \in Reqs : ArriveAlone(r) \/ Step(r)

Spec == Init /\ [][Next]_vars

ConcNext == Provision \/ \E r \in Reqs : ArriveAny(r) \/ Step(r)

\* the concurrent runs use the configuration that omits memory_limit
ConcInit == Init /\ handler.MemoryLimit = 0

ConcSpec == ConcInit /\ [][ConcNext]_vars

\* ------------------------------------------------------------------- claims

Range(s) == { s[i] : i \in DOMAIN s }
Count(s, e) == Cardinality({ i \in DOMAIN s : s[i] = e })

\* the request is in the hands of ServeHTTP or of the host after it
Entered(r) == pc[r] # "idle"

\* a request as the claims describe the ones that are converted: a POST
\* whose Content-Type begins with one of the two form types
FormPost(rq) ==
    /\ rq.Method = "POST"
    /\ \/ HasPrefix(rq.Header.CT, <<"application/x-www-form-urlencoded">>)
       \/ HasPrefix(rq.Header.CT, <<"multipart/form-data">>)

OnlyFields(items) == \A i \in DOMAIN items : items[i].kind = "field"

\* a JSON array of the parts, as the encoder ends it
JsonArray(ps) == <<"[">> \o JsonElements(ps) \o <<"]", "\n">>

\* C1: a request that is not a form POST reaches the next handler exactly
\* once and exactly as received: nothing is parsed, the body is neither read
\* nor closed, no buffer is taken, and ServeHTTP returns what next returned.
C1_PassThroughUnchanged ==
    \A r \in Reqs :
        (Entered(r) /\ ~FormPost(entry[r])) =>
            /\ req[r] = entry[r]
            /\ ~stream[r].read
            /\ stream[r].closed = 0
            /\ loc[r] = NoLocals
            /\ tmp[r] = {}
            /\ Range(trace[r]) \subseteq {"next", "nil", "error"}
            /\ Len(nextCalls[r]) <= 1
            /\ \A i \in DOMAIN nextCalls[r] :
                /\ nextCalls[r][i].req = entry[r]
                /\ nextCalls[r][i].readable.kind = "stream"
                /\ nextCalls[r][i].closed = 0
            /\ pc[r] = "returned" =>
                /\ Len(nextCalls[r]) = 1
                /\ result[r] = NextResult(trace[r][Len(trace[r])])

C1_Witness ==
    \E r \in Reqs :
        /\ pc[r] = "returned"
        /\ entry[r].Method = "POST"
        /\ entry[r].Header.CT = <<"application/json">>
        /\ Len(nextCalls[r]) = 1
        /\ result[r] = NextResult("error")

\* C2: once Provision has run, the memory limit every ServeHTTP call hands to
\* the form parser is positive: the default (2097152) when the configured
\* value is zero or negative, the configured value otherwise.
C2_DefaultLimitApplied ==
    \A r \in Reqs :
        Count(trace[r], "parse") > 0 =>
            /\ loc[r].limit > 0
            /\ loc[r].limit = IF configured <= 0 THEN 2097152 ELSE configured

\* C3: when ServeHTTP has returned for a request whose form was parsed, none
\* of the temporary files the parser made for it is left on disk.
C3_TempFilesRemoved ==
    \A r \in Reqs :
        (pc[r] = "returned" /\ req[r].MultipartForm.set) => tmp[r] = {}

\* C4: a POST with Content-Type application/x-www-form-urlencoded and a
\* well-formed body is converted: next is given a JSON array with one
\* field/text part per submitted pair, in the order submitted for one name.
C4_UrlencodedConverts ==
    \A r \in Reqs :
        ( /\ pc[r] = "returned"
          /\ entry[r].Method = "POST"
          /\ entry[r].Header.CT = <<"application/x-www-form-urlencoded">>
          /\ stream[r].body.ok
          /\ stream[r].body.items # <<>>
          /\ OnlyFields(stream[r].body.items)
          /\ \A i \in DOMAIN stream[r].body.items :
                stream[r].body.items[i].name = <<"a">> ) =>
            /\ result[r].kind = "next"
            /\ Len(nextCalls[r]) = 1
            /\ nextCalls[r][1].readable.data =
                 JsonArray([i \in DOMAIN stream[r].body.items |->
                              Part(stream[r].body.items[i].name, FieldText,
                                   stream[r].body.items[i].value, <<>>, <<>>)])

\* C5: when the parser fails on a form POST, ServeHTTP returns a 400 error
\* whose cause is the parser's error, and next is never invoked.
C5_ParseFailureIs400 ==
    \A r \in Reqs :
        ( /\ Entered(r)
          /\ FormPost(entry[r])
          /\ ParseError(entry[r].Header.CT, stream[r].body) # "nil" ) =>
            /\ nextCalls[r] = <<>>
            /\ pc[r] = "returned" =>
                result[r] = [kind |-> "error", status |-> 400,
                             cause |-> ParseError(entry[r].Header.CT, stream[r].body)]

C5_Witness ==
    \E r \in Reqs :
        /\ pc[r] = "returned"
        /\ entry[r].Header.CT = Multipart
        /\ ~stream[r].body.ok
        /\ result[r].kind = "error"
        /\ result[r].cause = "ErrUnexpectedEOF"

\* the number a reader of a decimal header value gets
DigitValue(c) == CHOOSE d \in 0..9 : <<"0","1","2","3","4","5","6","7","8","9">>[d + 1] = c

RECURSIVE Atoi(_)
Atoi(s) == IF Len(s) = 0 THEN 0
           ELSE 10 * Atoi(SubSeq(s, 1, Len(s) - 1)) + DigitValue(s[Len(s)])

\* C6: when next is invoked with a converted request, the decimal value of
\* its Content-Length header, its ContentLength field and the number of
\* bytes readable from its body are the same number.
C6_ContentLengthExact ==
    \A r \in Reqs : \A i \in DOMAIN nextCalls[r] :
        nextCalls[r][i].req.Body.kind = "buf" =>
            /\ Atoi(nextCalls[r][i].req.Header.CL) = nextCalls[r][i].req.ContentLength
            /\ nextCalls[r][i].req.ContentLength = Len(nextCalls[r][i].readable.data)

C6_Witness ==
    \E r \in Reqs :
        /\ pc[r] = "innext"
        /\ Len(nextCalls[r]) = 1
        /\ nextCalls[r][1].req.Body.kind = "buf"
        /\ nextCalls[r][1].req.ContentLength > 99
        /\ nextCalls[r][1].req.ContentLength # entry[r].ContentLength

\* C7: whenever next is invoked for a form POST, the request's Content-Type
\* is application/json, its Content-Type-Class is caddy_post_json_v1 and its
\* body is the JSON array of the parts.
C7_NextGetsJsonArray ==
    \A r \in Reqs : \A i \in DOMAIN nextCalls[r] :
        FormPost(entry[r]) =>
            /\ nextCalls[r][i].req.Header.CT = <<"application/json">>
            /\ nextCalls[r][i].req.Header.CTC = <<"caddy_post_json_v1">>
            /\ nextCalls[r][i].readable.kind = "buf"
            /\ nextCalls[r][i].readable.data = JsonArray(loc[r].converted)

\* C8: a buffer taken from the pool is empty when the document is written to
\* it, so that it holds the document and nothing else, and it is put back
\* exactly once on every return after it was taken: never twice, never not.
C8_BufferDiscipline ==
    \A r \in Reqs :
        /\ Count(trace[r], "get") <= 1
        /\ Count(trace[r], "put") <= Count(trace[r], "get")
        /\ loc[r].buf # 0 => loc[r].buf \notin pool
        /\ pc[r] = "encode" => bufData[loc[r].buf] = <<>>
        /\ pc[r] = "splice" => bufData[loc[r].buf] = JsonEncode(loc[r].converted)
        /\ pc[r] = "returned" =>
            /\ Count(trace[r], "put") = Count(trace[r], "get")
            /\ loc[r].buf = 0

C8_Witness ==
    \E r \in Reqs : \E q \in Reqs \ {r} :
        /\ pc[r] = "returned"
        /\ Count(trace[r], "put") = 1
        /\ result[r] = NextResult("error")
        /\ pc[q] = "returned"
        /\ Count(trace[q], "put") = 1
        /\ result[q] = HandlerError(500, "json")

Submitted(items, p) ==
    Cardinality({ i \in DOMAIN items :
                    /\ items[i].name = p.Name
                    /\ items[i].value = p.Value })

\* C10: when a form of text fields only is converted, the document holds one
\* part per submitted (name, value) pair, repeated pairs counted, each a
\* field/text part with no content_type and no file_name.
C10_OnePartPerPair ==
    \A r \in Reqs : \A c \in DOMAIN nextCalls[r] :
        ( /\ nextCalls[r][c].req.Body.kind = "buf"
          /\ OnlyFields(stream[r].body.items) ) =>
            LET items == stream[r].body.items
                ps == loc[r].converted
            IN /\ Len(ps) = Len(items)
               /\ nextCalls[r][c].readable.data = JsonEncode(ps)
               /\ \A i \in DOMAIN ps :
                    /\ ps[i].Type = <<"f","i","e","l","d","/","t","e","x","t">>
                    /\ ps[i].ContentType = <<>>
                    /\ ps[i].FileName = <<>>
                    /\ Count(ps, ps[i]) = Submitted(items, ps[i])
               /\ \A i \in DOMAIN items :
                    \E j \in DOMAIN ps :
                        /\ ps[j].Name = items[i].name
                        /\ ps[j].Value = items[i].value

C10_Witness ==
    \E r \in Reqs :
        /\ pc[r] = "innext"
        /\ stream[r].body.items =
             << TextItem(<<"a">>, <<"1">>), TextItem(<<"a">>, <<"1">>) >>
        /\ Len(loc[r].converted) = 2
        /\ nextCalls[r][1].req.Body.kind = "buf"

\* the request's converted document was handed to next
Converted(r) ==
    /\ nextCalls[r] # <<>>
    /\ nextCalls[r][1].req.Body.kind = "buf"

NamesOf(items) == { items[i].name : i \in DOMAIN items }

\* the values submitted under name n, in submission order
ValuesSubmitted(items, n) ==
    LET Is(it) == it.kind = "field" /\ it.name = n
        sel == SelectSeq(items, Is)
    IN [i \in DOMAIN sel |-> sel[i].value]

\* the file names submitted under name n, in submission order
FilesSubmitted(items, n) ==
    LET Is(it) == it.kind = "file" /\ it.name = n
        sel == SelectSeq(items, Is)
    IN [i \in DOMAIN sel |-> sel[i].filename]

ValuesConverted(ps, n) ==
    LET Is(p) == p.Type = <<"f","i","e","l","d","/","t","e","x","t">> /\ p.Name = n
        sel == SelectSeq(ps, Is)
    IN [i \in DOMAIN sel |-> sel[i].Value]

FilesConverted(ps, n) ==
    LET Is(p) == p.Type = <<"f","i","l","e","/","b","a","s","e","6","4">> /\ p.Name = n
        sel == SelectSeq(ps, Is)
    IN [i \in DOMAIN sel |-> sel[i].FileName]

\* C11: in a converted part list every field/text part comes before every
\* file/base64 part, and the parts of one kind that share a name are in the
\* order in which their values (or files) were submitted.
C11_PartOrder ==
    \A r \in Reqs :
        Converted(r) =>
            LET ps == loc[r].converted
                items == stream[r].body.items
            IN /\ \A i \in DOMAIN ps : \A j \in DOMAIN ps :
                    ( /\ ps[i].Type = <<"f","i","l","e","/","b","a","s","e","6","4">>
                      /\ ps[j].Type = <<"f","i","e","l","d","/","t","e","x","t">> ) => j < i
               /\ \A n \in NamesOf(items) :
                    /\ ValuesConverted(ps, n) = ValuesSubmitted(items, n)
                    /\ FilesConverted(ps, n) = FilesSubmitted(items, n)

C11_Witness ==
    \E r \in Reqs :
        /\ Converted(r)
        /\ stream[r].body.items =
             << FileItem(<<"f">>, <<"y">>, <<>>, <<80, 78>>),
                FileItem(<<"f">>, <<"x">>, <<"i","/","p">>, <<77>>) >>
        /\ FilesConverted(loc[r].converted, <<"f">>) = << <<"y">>, <<"x">> >>

C11_WitnessFieldsFirst ==
    \E r \in Reqs :
        /\ Converted(r)
        /\ stream[r].body.items =
             << FileItem(<<"f">>, <<"x">>, <<"i","/","p">>, <<77>>),
                TextItem(<<"a">>, <<"2">>) >>
        /\ loc[r].converted[1].Name = <<"a">>

\* the position of a character in the base64 alphabet
B64Chars == { B64Alphabet[i] : i \in DOMAIN B64Alphabet }

B64Positions == [c \in B64Chars |-> CHOOSE i \in 0..63 : B64Alphabet[i + 1] = c]

B64Index(c) == B64Positions[c]

\* standard base64 text: groups of four characters of the alphabet, "=" only
\* as the last one or two characters of the last group, no line breaks
ValidBase64(s) ==
    /\ Len(s) % 4 = 0
    /\ \A i \in DOMAIN s :
        \/ s[i] \in B64Chars
        \/ /\ s[i] = "="
           /\ i >= Len(s) - 1
           /\ i < Len(s) => s[Len(s)] = "="

\* what a base64 decoder makes of valid text
RECURSIVE Base64Decode(_)
Base64Decode(s) ==
    IF Len(s) = 0 THEN <<>>
    ELSE LET a == B64Index(s[1])
             b == B64Index(s[2])
         IN IF s[3] = "=" THEN << a * 4 + b \div 16 >>
            ELSE LET c == B64Index(s[3]) IN
                 IF s[4] = "=" THEN << a * 4 + b \div 16, (b % 16) * 16 + c \div 4 >>
                 ELSE << a * 4 + b \div 16, (b % 16) * 16 + c \div 4,
                         (c % 4) * 64 + B64Index(s[4]) >>
                      \o Base64Decode(SubSeq(s, 5, Len(s)))

\* the submitted files that the file part p, whose value decodes to bytes,
\* stands for
Uploaded(items, p, bytes) ==
    { i \in DOMAIN items :
        /\ items[i].kind = "file"
        /\ items[i].name = p.Name
        /\ items[i].filename = p.FileName
        /\ items[i].ctype = p.ContentType
        /\ items[i].bytes = bytes }

IsFilePart(p) == p.Type = <<"f","i","l","e","/","b","a","s","e","6","4">>

\* C12: in a converted form every uploaded file is exactly one file/base64
\* part with the client's file name and declared content type, whose value
\* is valid standard base64 without line breaks that decodes to the bytes of
\* the file.
C12_FilesRoundTrip ==
    \A r \in Reqs :
        Converted(r) =>
            LET ps == loc[r].converted
                items == stream[r].body.items
            IN /\ Cardinality({ i \in DOMAIN ps : IsFilePart(ps[i]) })
                    = Cardinality({ i \in DOMAIN items : items[i].kind = "file" })
               /\ \A i \in DOMAIN ps :
                    IsFilePart(ps[i]) =>
                        /\ ValidBase64(ps[i].Value)
                        /\ "\n" \notin Range(ps[i].Value)
                        /\ Count(ps, ps[i])
                             = Cardinality(Uploaded(items, ps[i], Base64Decode(ps[i].Value)))
               /\ \A i \in DOMAIN items :
                    items[i].kind = "file" =>
                        \E j \in DOMAIN ps :
                            /\ IsFilePart(ps[j])
                            /\ i \in Uploaded(items, ps[j], Base64Decode(ps[j].Value))

C12_Witness ==
    \E r \in Reqs :
        /\ Converted(r)
        /\ stream[r].body.items =
             << FileItem(<<"f">>, <<"y">>, <<>>, <<80, 78>>),
                FileItem(<<"g">>, <<"z">>, <<"i","/","p">>, <<255, 0, 16>>) >>
        /\ \E j \in DOMAIN loc[r].converted :
            loc[r].converted[j].Value = <<"U","E","4","=">>
        /\ \E j \in DOMAIN loc[r].converted :
            loc[r].converted[j].Value = <<"/","w","A","Q">>

\* the form of a run that holds the whole payload in memory
InMemoryForm(body) == ParseMultipartForm(body, defaultMemLimit)

\* the parts of such a run, for one order of visiting the names of the
\* fields and one of the names of the files
InMemoryParts(form, order, forder) ==
    LET work == FileWork(form.File, forder)
    IN TextParts(form.Value, order)
       \o [i \in DOMAIN work |-> encodeFileIntoMemory(work[i].name, work[i].file)]

\* next has just been invoked with the converted request r
HandedOn(r) == pc[r] = "innext" /\ Converted(r)

Occurrences(t, e) == Cardinality({ i \in DOMAIN t : t[i] = e })

\* the step of request r that failed, if one did
FailedStep(r) ==
    CHOOSE i \in DOMAIN trace[r] : i < Len(trace[r]) /\ trace[r][i + 1] = "failed"

HasFailed(r) == \E i \in DOMAIN trace[r] : trace[r][i] = "failed"

\* the causes each failing step can report
CausesOf(step) ==
    IF step = "file" THEN {"open", "copy"}
    ELSE IF step = "remove" THEN {"remove"}
    ELSE IF step = "encode" THEN {"json"}
    ELSE {}

\* C14: once the form is parsed, a failure of opening or encoding a file, of
\* removing the temporary files or of serializing the parts makes ServeHTTP
\* return an HTTP 500 error carrying that failure; next is not invoked, and
\* the step that failed and the steps after it are not run again.
C14_InternalFailureIs500 ==
    \A r \in Reqs :
        (req[r].MultipartForm.set /\ HasFailed(r)) =>
            LET step == trace[r][FailedStep(r)] IN
            /\ step \in {"file", "remove", "encode"}
            /\ Occurrences(trace[r], "failed") = 1
            /\ \A i \in DOMAIN trace[r] :
                i > FailedStep(r) + 1 => trace[r][i] = "put"
            /\ step \in {"remove", "encode"} => Occurrences(trace[r], step) = 1
            /\ step = "file" =>
                Occurrences(trace[r], "file")
                    <= Cardinality({ i \in DOMAIN stream[r].body.items :
                                        stream[r].body.items[i].kind = "file" })
            /\ nextCalls[r] = <<>>
            /\ pc[r] \in {"defer", "returned"}
            /\ pc[r] = "returned" =>
                /\ result[r].kind = "error"
                /\ result[r].status = 500
                /\ result[r].cause \in CausesOf(step)

\* ServeHTTP has returned after a spilled file could not be opened
C14_Witness ==
    \E r \in Reqs :
        /\ pc[r] = "returned"
        /\ req[r].MultipartForm.set
        /\ Len(trace[r]) >= 2
        /\ trace[r][Len(trace[r]) - 1] = "file"
        /\ trace[r][Len(trace[r])] = "failed"
        /\ result[r] = [kind |-> "error", status |-> 500, cause |-> "open"]

\* the place of each event in the order of the claim: parse (with the close
\* of the body), build parts, remove temporary storage, serialize, replace
\* body and headers, invoke next, then the return
Rank(e) ==
    IF e = "parse" THEN 1
    ELSE IF e = "close" THEN 2
    ELSE IF e = "build" THEN 3
    ELSE IF e = "file" THEN 4
    ELSE IF e = "remove" THEN 5
    ELSE IF e = "get" THEN 6
    ELSE IF e = "reset" THEN 7
    ELSE IF e = "encode" THEN 8
    ELSE IF e = "splice" THEN 9
    ELSE IF e = "next" THEN 10
    ELSE IF e \in {"nil", "error"} THEN 11
    ELSE 12

FilesSent(r) ==
    Cardinality({ i \in DOMAIN stream[r].body.items :
                    stream[r].body.items[i].kind = "file" })

\* C15: the steps of one request run in the order parse, build parts, remove
\* temporary storage, serialize, replace body and headers, invoke next; a
\* step starts only when the one before it has completed, no step runs
\* twice (the file step once per file), and nothing but the deferred return
\* of the buffer follows a failed step.
C15_StepsInOrder ==
    \A r \in Reqs :
        LET t == trace[r]
            seen == Range(t)
            has(e) == e \in seen
        IN /\ \A i \in 1..(Len(t) - 1) :
                IF t[i + 1] = "failed"
                THEN t[i] \in {"parse", "file", "remove", "encode"}
                ELSE IF t[i] = "failed"
                THEN t[i + 1] = "put" /\ i + 1 = Len(t)
                ELSE \/ Rank(t[i]) < Rank(t[i + 1])
                     \/ t[i] = "file" /\ t[i + 1] = "file"
           /\ t # <<>> => t[1] \in {"parse", "next"}
           /\ Occurrences(t, "file") <= FilesSent(r)
           /\ has("close") => has("parse")
           /\ has("build") => has("close")
           /\ has("file") => has("build")
           /\ has("remove") => has("build") /\ Occurrences(t, "file") = FilesSent(r)
           /\ has("get") => has("remove")
           /\ has("reset") => has("get")
           /\ has("encode") => has("reset")
           /\ has("splice") => has("encode")
           /\ (has("next") /\ has("parse")) => has("splice")
           /\ (has("splice") \/ has("next")) => ~has("failed")

\* a form with two spilled files: the first was encoded, the second failed,
\* and ServeHTTP returned
C15_Witness ==
    \E r \in Reqs :
        /\ pc[r] = "returned"
        /\ trace[r] = <<"parse", "close", "build", "file", "file", "failed">>

\* a whole conversion, from the parse to the return of the buffer
C15_WitnessConverted ==
    \E r \in Reqs :
        trace[r] = <<"parse", "close", "build", "file", "remove", "get", "reset",
                     "encode", "splice", "next", "nil", "put">>

\* the value ServeHTTP returns or is about to return
Outcome(r) ==
    IF pc[r] = "returned" THEN result[r]
    ELSE IF pc[r] = "defer" THEN loc[r].ret
    ELSE [kind |-> "none"]

\* C16: when ServeHTTP returns a conversion error, the request has the body
\* reference, the Content-Type, Content-Type-Class and Content-Length headers
\* and the ContentLength it had on entry; no partial result is in it.
C16_ErrorLeavesRequest ==
    \A r \in Reqs :
        Outcome(r).kind = "error" =>
            /\ Outcome(r).status \in {400, 500}
            /\ req[r].Body = [kind |-> "stream", id |-> 0]
            /\ req[r].Body = entry[r].Body
            /\ req[r].Header.CT = entry[r].Header.CT
            /\ req[r].Header.CTC = entry[r].Header.CTC
            /\ req[r].Header.CL = entry[r].Header.CL
            /\ req[r].ContentLength = entry[r].ContentLength
            /\ req[r].Method = entry[r].Method

\* ServeHTTP returned a 500 after it had built parts, with temporary files
\* it could not remove
C16_Witness ==
    \E r \in Reqs :
        /\ pc[r] = "returned"
        /\ result[r] = [kind |-> "error", status |-> 500, cause |-> "remove"]
        /\ loc[r].converted # <<>>
        /\ HasPrefix(entry[r].Header.CT, <<"multipart/form-data">>)
        /\ req[r].Header = entry[r].Header

\* the form of request r has been parsed and line 77 is behind it
PastClose(r) == req[r].MultipartForm.set /\ pc[r] # "close"

\* C17: where parsing succeeds the original body is closed exactly once and
\* before the first part is built; where parsing fails the handler does not
\* close it.
C17_BodyClosedOnce ==
    \A r \in Reqs :
        /\ stream[r].closed <= 1
        /\ PastClose(r) => stream[r].closed = 1
        /\ pc[r] = "close" =>
            /\ stream[r].closed = 0
            /\ loc[r].converted = <<>>
            /\ Occurrences(trace[r], "build") = 0
        /\ \A j \in DOMAIN trace[r] :
            trace[r][j] \in {"build", "file"} =>
                \E i \in 1..(j - 1) : trace[r][i] = "close"
        /\ loc[r].converted # <<>> => stream[r].closed = 1
        /\ (Entered(r) /\ ~req[r].MultipartForm.set) => stream[r].closed = 0
        /\ \A i \in DOMAIN nextCalls[r] :
            nextCalls[r][i].closed = (IF req[r].MultipartForm.set THEN 1 ELSE 0)

\* the parts are being built and the body was closed
C17_Witness ==
    \E r \in Reqs :
        /\ pc[r] = "files"
        /\ loc[r].converted # <<>>
        /\ trace[r][2] = "close"
        /\ stream[r].closed = 1
        /\ stream[r].read

\* ServeHTTP returned a parse failure and the body is open
C17_WitnessParseFailure ==
    \E r \in Reqs :
        /\ pc[r] = "returned"
        /\ result[r].kind = "error"
        /\ result[r].status = 400
        /\ stream[r].closed = 0

\* what the invocation of next by request r returned, once it has
NextReturned(r) ==
    { trace[r][i] : i \in { i \in DOMAIN trace[r] : trace[r][i] \in {"nil", "error"} } }

\* C18: a ServeHTTP call either returns a conversion error and has not
\* invoked next, or has invoked next exactly once and returns what next
\* returned; next is never invoked twice.
C18_ErrorOrNextOnce ==
    \A r \in Reqs :
        /\ Len(nextCalls[r]) <= 1
        /\ Occurrences(trace[r], "next") = Len(nextCalls[r])
        /\ Outcome(r).kind = "error" => nextCalls[r] = <<>>
        /\ pc[r] = "returned" =>
            \/ /\ result[r].kind = "error"
               /\ result[r].status \in {400, 500}
               /\ nextCalls[r] = <<>>
               /\ NextReturned(r) = {}
            \/ /\ result[r].kind = "next"
               /\ Len(nextCalls[r]) = 1
               /\ NextReturned(r) = {result[r].value}
        /\ Outcome(r).kind = "next" =>
            /\ Len(nextCalls[r]) = 1
            /\ NextReturned(r) = {Outcome(r).value}

\* ServeHTTP returned the error of the next handler after a conversion
C18_Witness ==
    \E r \in Reqs :
        /\ pc[r] = "returned"
        /\ Converted(r)
        /\ Len(nextCalls[r]) = 1
        /\ result[r] = [kind |-> "next", value |-> "error"]

\* the requests whose body reads from buffer b
ReadersOf(b) == { r \in Reqs : req[r].Body = [kind |-> "buf", id |-> b] }

\* C19: no request's body refers to a buffer that is in the pool; and once
\* ServeHTTP has returned for a converted request, its body reads what was
\* handed to next, from a buffer no other request holds.
C19_PooledBufferUnreferenced ==
    /\ \A b \in pool : ReadersOf(b) = {}
    /\ \A r \in Reqs :
        (pc[r] = "returned" /\ Converted(r)) =>
            /\ Readable(req[r]) = nextCalls[r][1].readable
            /\ \A q \in Reqs \ {r} : loc[q].buf # req[r].Body.id

\* the body of a returned request reads from the buffer another request is
\* writing its document to
C19_ForeignDataObserved ==
    \E r \in Reqs :
        /\ pc[r] = "returned"
        /\ Converted(r)
        /\ \E q \in Reqs \ {r} :
            /\ loc[q].buf = req[r].Body.id
            /\ pc[q] \in {"encode", "splice"}
        /\ Readable(req[r]) # nextCalls[r][1].readable

====
